---------------------------- MODULE Spec2Model ----------------------------
(***************************************************************************)
(* A model of scripts/deps-analyze.py: the DependencyAnalyzer class and    *)
(* main().  A Python str is a sequence of one-character strings, a Python  *)
(* dict is a function whose domain is a set of strings (a record), and a   *)
(* Python list is a sequence.                                              *)
(***************************************************************************)
EXTENDS Integers, Sequences, FiniteSets, TLC

VARIABLES
    pc,          \* position of main(): "check_root", "timestamp", ..., "done"
    rootExists,  \* does the resolved --project-root exist (main, line 319)
    report,      \* the report dict built by generate_report
    console,     \* what has been print()ed so far, one entry per print call
    invoked,     \* the external commands run so far, in order
    exception,   \* the exception that escaped main(), or "none"
    exitCode,    \* the exit status of the process (-1 while running)
    version,     \* argument of a parse_version call (and `current` of classify)
    latest,      \* second argument of a determine_semver_change call
    vret,        \* return value of the version call
    vpc,         \* position of the version call: "idle", "args", "parsed", "classified"
    probeIn,     \* input of a probe call: stdout of the external tool
    probeRet,    \* EcosystemResult (or exception) of the probe call
    ppc          \* position of the probe call: "idle", "go_args", "cargo_args", "go", "cargo"

mainVars == <<pc, rootExists, report, console, invoked, exception, exitCode>>
versionVars == <<version, latest, vret, vpc>>
probeVars == <<probeIn, probeRet, ppc>>
vars == <<pc, rootExists, report, console, invoked, exception, exitCode,
          version, latest, vret, vpc, probeIn, probeRet, ppc>>

(***************************************************************************)
(* Bounds of the model.                                                    *)
(***************************************************************************)
MaxLen == 3      \* longest version string given to parse_version
MaxLines == 3    \* most output lines of `go list` in a probe call
MaxDeps == 3     \* most entries of the "dependencies" list of cargo outdated
MaxRunLines == 2 \* most output lines of `go list` in a run of main()
MaxRunDeps == 2  \* most "dependencies" entries in a run of main()

Timeout == 30    \* timeout= of subprocess.run in run_command

(***************************************************************************)
(* Strings.                                                                *)
(***************************************************************************)
Digits == {"0", "1", "2", "3", "4", "5", "6", "7", "8", "9"}
Whitespace == {" ", "\n"}

DigitValue(c) ==
    CASE c = "0" -> 0 [] c = "1" -> 1 [] c = "2" -> 2 [] c = "3" -> 3
      [] c = "4" -> 4 [] c = "5" -> 5 [] c = "6" -> 6 [] c = "7" -> 7
      [] c = "8" -> 8 [] c = "9" -> 9

\* A value that is not a str (JSON null, loaded as Python's None).  It is a
\* one-element sequence whose element is no single character, so that it is
\* distinct from every str and still comparable with one.
None == <<"None">>

\* All sequences over S of length at most n.
SeqsUpTo(S, n) == UNION {[1..k -> S] : k \in 0..n}

\* str.lstrip(chars): drop every leading character that is in chars.
RECURSIVE lstrip(_, _)
lstrip(s, chars) ==
    IF s # <<>> /\ Head(s) \in chars THEN lstrip(Tail(s), chars) ELSE s

\* str.rstrip(chars)
RECURSIVE rstrip(_, _)
rstrip(s, chars) ==
    IF s # <<>> /\ s[Len(s)] \in chars
    THEN rstrip(SubSeq(s, 1, Len(s) - 1), chars)
    ELSE s

\* str.strip() with no argument: whitespace off both ends.
strip(s) == rstrip(lstrip(s, Whitespace), Whitespace)

\* str.split(sep) for a one-character sep: always at least one piece.
RECURSIVE split(_, _)
split(s, sep) ==
    IF \E i \in 1..Len(s) : s[i] = sep
    THEN LET i == CHOOSE j \in 1..Len(s) :
                      s[j] = sep /\ \A k \in 1..(j - 1) : s[k] # sep
         IN  <<SubSeq(s, 1, i - 1)>> \o split(SubSeq(s, i + 1, Len(s)), sep)
    ELSE <<s>>

\* The longest prefix of s made of characters in S (a greedy X+ or X*).
RECURSIVE Run(_, _)
Run(s, S) ==
    IF s # <<>> /\ Head(s) \in S THEN <<Head(s)>> \o Run(Tail(s), S) ELSE <<>>

\* The longest prefix of s made of characters not in S (a greedy [^X]+).
RECURSIVE RunNot(_, _)
RunNot(s, S) ==
    IF s # <<>> /\ Head(s) \notin S THEN <<Head(s)>> \o RunNot(Tail(s), S) ELSE <<>>

\* s without its first n characters.
Drop(s, n) == SubSeq(s, n + 1, Len(s))

\* int(digits) for a non-empty run of decimal digits.
RECURSIVE int(_)
int(ds) ==
    IF ds = <<>> THEN 0
    ELSE 10 * int(SubSeq(ds, 1, Len(ds) - 1)) + DigitValue(ds[Len(ds)])

(***************************************************************************)
(* Version Classifier: parse_version and determine_semver_change.          *)
(***************************************************************************)
\* One iteration of the loop of parse_version, lines 164-173:
\* re.match(r'(\d+)', part), then int of the group or 0.
ParsePart(part) ==
    LET numeric_part == Run(part, Digits)
    IN  IF numeric_part # <<>> THEN int(numeric_part) ELSE 0

parse_version(v) ==
    LET stripped == lstrip(v, {"v"})
        all == split(stripped, ".")
        parts == SubSeq(all, 1, IF Len(all) < 3 THEN Len(all) ELSE 3)
        result == [i \in 1..Len(parts) |-> ParsePart(parts[i])]
        padded == [i \in 1..3 |-> IF i <= Len(result) THEN result[i] ELSE 0]
    IN  SubSeq(padded, 1, 3)

\* parse_version raises (AttributeError at version.lstrip, line 157) exactly
\* when its argument is not a str; nothing after line 157 can raise for a str.
parse_version_raises(v) == v = None

\* A variant that compares by order instead of by inequality.
determine_semver_change_ordered(current, new) ==
    IF parse_version_raises(current) \/ parse_version_raises(new)
    THEN "unknown"
    ELSE LET current_parts == parse_version(current)
             latest_parts == parse_version(new)
         IN  IF current_parts[1] < latest_parts[1] THEN "major"
             ELSE IF current_parts[2] < latest_parts[2] THEN "minor"
             ELSE IF current_parts[3] < latest_parts[3] THEN "patch"
             ELSE "other"

\* The bare except of lines 151-152 turns any exception of the try block
\* into "unknown".
determine_semver_change(current, new) ==
    IF parse_version_raises(current) \/ parse_version_raises(new)
    THEN "unknown"
    ELSE LET current_parts == parse_version(current)
             latest_parts == parse_version(new)
         IN  IF current_parts[1] # latest_parts[1] THEN "major"
             ELSE IF current_parts[2] # latest_parts[2] THEN "minor"
             ELSE IF current_parts[3] # latest_parts[3] THEN "patch"
             ELSE "other"

(***************************************************************************)
(* Python dicts.                                                           *)
(***************************************************************************)
EmptyDict == [k \in {} |-> <<>>]

\* d.get(k, default)
Get(d, k, default) == IF k \in DOMAIN d THEN d[k] ELSE default

(***************************************************************************)
(* Command Runner.  An external process is described by what it would do:  *)
(* whether it can be launched at all, whether it ever exits on its own,    *)
(* how long it runs, and its exit status and output.                       *)
(***************************************************************************)
\* run_command, lines 21-35: the (returncode, stdout, stderr) triple.
run_command(child) ==
    IF ~child.launch
    THEN [returncode |-> 1, stdout |-> <<>>, stderr |-> "No such file or directory"]
    ELSE IF ~child.returns \/ child.duration > Timeout
    THEN [returncode |-> 1, stdout |-> <<>>, stderr |-> "Command timed out"]
    ELSE [returncode |-> child.returncode, stdout |-> child.stdout,
          stderr |-> child.stderr]

(***************************************************************************)
(* Ecosystem probe, secondary-module variant: analyze_go_deps.             *)
(***************************************************************************)
\* re.match(r'^(\S+)\s+(\S+)(?:\s+\[([^\]]+)\])?', line), line 117.
\* Every quantifier is greedy and none can give a character back to what
\* follows it, so each group is a longest run.  A group that did not take
\* part in the match (Python's None) is the empty sequence.
GoLineMatch(line) ==
    LET name == RunNot(line, Whitespace)
        r1 == Drop(line, Len(name))
        sp1 == Run(r1, Whitespace)
        r2 == Drop(r1, Len(sp1))
        current == RunNot(r2, Whitespace)
        r3 == Drop(r2, Len(current))
        sp2 == Run(r3, Whitespace)
        r4 == Drop(r3, Len(sp2))
        inner == IF r4 # <<>> /\ Head(r4) = "[" THEN RunNot(Tail(r4), {"]"}) ELSE <<>>
        r5 == IF r4 # <<>> THEN Drop(Tail(r4), Len(inner)) ELSE <<>>
        bracket == sp2 # <<>> /\ inner # <<>> /\ r5 # <<>> /\ Head(r5) = "]"
    IN  [matched |-> name # <<>> /\ sp1 # <<>> /\ current # <<>>,
         module_name |-> name,
         current_version |-> current,
         latest_version |-> IF bracket THEN inner ELSE <<>>]

\* One iteration of the loop of lines 109-132.
GoLine(result, line) ==
    IF line = <<>> THEN result
    ELSE LET counted == [result EXCEPT !.total_deps = @ + 1]
             match == GoLineMatch(line)
         IN  IF match.matched /\ match.latest_version # <<>>
                /\ match.latest_version # match.current_version
             THEN [counted EXCEPT
                     !.outdated_count = @ + 1,
                     !.updates = Append(@,
                         [name |-> match.module_name,
                          current |-> match.current_version,
                          latest |-> match.latest_version,
                          change_type |-> determine_semver_change(
                              match.current_version, match.latest_version)])]
             ELSE counted

RECURSIVE GoLoop(_, _)
GoLoop(result, lines) ==
    IF lines = <<>> THEN result
    ELSE GoLoop(GoLine(result, Head(lines)), Tail(lines))

\* analyze_go_deps, lines 87-134.  gomod: does <module_path>/go.mod exist;
\* child: what `go list -u -m all` does.  Returns the EcosystemResult with
\* the commands run and the lines printed on the way.
analyze_go_deps(module_path, gomod, child) ==
    IF ~gomod
    THEN [ret |-> [error |-> <<"go.mod not found">>], ran |-> <<>>, printed |-> <<>>]
    ELSE LET r == run_command(child)
             ran == <<"go list -u -m all">>
             printed == <<[line |-> "go_progress", section |-> module_path]>>
         IN  IF r.returncode # 0
             THEN [ret |-> [error |-> <<"Failed to run go list: ", r.stderr>>],
                   ran |-> ran, printed |-> printed]
             ELSE [ret |-> GoLoop([module_path |-> module_path,
                                   total_deps |-> 0,
                                   outdated_count |-> 0,
                                   updates |-> <<>>],
                                  split(strip(r.stdout), "\n")),
                   ran |-> ran, printed |-> printed]

(***************************************************************************)
(* Ecosystem probe, native-manifest variant: analyze_cargo_deps.           *)
(* The stdout of `cargo outdated --format json` is described by what       *)
(* json.loads makes of it: type "invalid" (JSONDecodeError), a JSON value  *)
(* that is no object (type "array"), or an object with its members.        *)
(***************************************************************************)
\* A variant of the loop body that counts every entry as outdated and
\* records only those whose versions differ.
CargoEntryCountAll(result, dep) ==
    IF "project" \notin DOMAIN dep \/ "latest" \notin DOMAIN dep
    THEN [raised |-> "KeyError", result |-> result]
    ELSE IF dep.project # dep.latest
    THEN IF "name" \notin DOMAIN dep
         THEN [raised |-> "KeyError", result |-> result]
         ELSE [raised |-> "none",
               result |-> [result EXCEPT
                   !.outdated_count = @ + 1,
                   !.updates = Append(@,
                       [name |-> dep.name,
                        current |-> dep.project,
                        latest |-> dep.latest,
                        change_type |-> determine_semver_change(dep.project, dep.latest),
                        kind |-> Get(dep, "kind", "unknown")])]]
    ELSE [raised |-> "none", result |-> [result EXCEPT !.outdated_count = @ + 1]]

\* One iteration of the loop of lines 66-80.  dep[k] of a missing key raises
\* KeyError, which line 84 does not catch.
CargoEntry(result, dep) ==
    IF "project" \notin DOMAIN dep \/ "latest" \notin DOMAIN dep
    THEN [raised |-> "KeyError", result |-> result]
    ELSE IF dep.project # dep.latest
    THEN IF "name" \notin DOMAIN dep
         THEN [raised |-> "KeyError", result |-> result]
         ELSE [raised |-> "none",
               result |-> [result EXCEPT
                   !.outdated_count = @ + 1,
                   !.updates = Append(@,
                       [name |-> dep.name,
                        current |-> dep.project,
                        latest |-> dep.latest,
                        change_type |-> determine_semver_change(dep.project, dep.latest),
                        kind |-> Get(dep, "kind", "unknown")])]]
    ELSE [raised |-> "none", result |-> result]

RECURSIVE CargoLoop(_, _)
CargoLoop(result, dependencies) ==
    IF dependencies = <<>> THEN [raised |-> "none", result |-> result]
    ELSE LET step == CargoEntry(result, Head(dependencies))
         IN  IF step.raised # "none" THEN step
             ELSE CargoLoop(step.result, Tail(dependencies))

\* Lines 55-85: json.loads and the loop.  [raised, result]: the exception
\* that leaves analyze_cargo_deps ("none" if none) and the dict returned.
CargoParse(stdout) ==
    IF stdout.type = "invalid"
    THEN [raised |-> "none",
          result |-> [error |-> <<"Failed to parse cargo outdated output">>]]
    ELSE IF stdout.type # "object"
    THEN [raised |-> "AttributeError", result |-> EmptyDict]
    ELSE LET dependencies == Get(stdout.members, "dependencies", <<>>)
         IN  CargoLoop([total_deps |-> Len(dependencies),
                        outdated_count |-> 0,
                        updates |-> <<>>,
                        security_advisories |-> <<>>],
                       dependencies)

\* analyze_cargo_deps, lines 37-85.  check: what `cargo outdated --version`
\* does; outdated: what `cargo outdated --workspace --format json` does.
analyze_cargo_deps(check, outdated) ==
    LET r1 == run_command(check)
        progress == <<[line |-> "rust_progress"]>>
    IN  IF r1.returncode # 0
        THEN [raised |-> "none",
              ret |-> [error |-> <<"cargo-outdated not installed">>],
              ran |-> <<"cargo outdated --version">>,
              printed |-> Append(progress, [line |-> "cargo_outdated_not_found"])]
        ELSE LET r2 == run_command(outdated)
                 ran == <<"cargo outdated --version", "cargo outdated --format json">>
             IN  IF r2.returncode # 0
                 THEN [raised |-> "none",
                       ret |-> [error |-> <<"Failed to run cargo outdated: ", r2.stderr>>],
                       ran |-> ran, printed |-> progress]
                 ELSE LET parsed == CargoParse(r2.stdout)
                      IN  [raised |-> parsed.raised, ret |-> parsed.result,
                           ran |-> ran, printed |-> progress]

(***************************************************************************)
(* What the environment can do: the external tools and their output.       *)
(***************************************************************************)
NoLaunch == [launch |-> FALSE, returns |-> FALSE, duration |-> 0, returncode |-> 0,
             stdout |-> <<>>, stderr |-> ""]
Hangs == [launch |-> TRUE, returns |-> FALSE, duration |-> 0, returncode |-> 0,
          stdout |-> <<>>, stderr |-> ""]
Slow == [launch |-> TRUE, returns |-> TRUE, duration |-> Timeout + 1, returncode |-> 0,
         stdout |-> <<>>, stderr |-> ""]
ExitNonZero == [launch |-> TRUE, returns |-> TRUE, duration |-> 1, returncode |-> 1,
                stdout |-> <<>>, stderr |-> "error: failed"]
Ok(out) == [launch |-> TRUE, returns |-> TRUE, duration |-> 1, returncode |-> 0,
            stdout |-> out, stderr |-> ""]
Failing == {NoLaunch, Hangs, Slow, ExitNonZero}
Children(stdouts) == Failing \cup {Ok(out) : out \in stdouts}

\* Output lines of `go list -u -m all`.
LineCurrent == <<"m", " ", "1">>
LineSame == <<"m", " ", "1", " ", "[", "1", "]">>
LineMinor == <<"m", " ", "1", " ", "[", "1", ".", "1", "]">>
LineMajor == <<"m", " ", "1", " ", "[", "2", "]">>
LineOther == <<"m", " ", "1", " ", "[", "v", "1", "]">>
LineMainModule == <<"m">>
LineUnclosed == <<"m", " ", "1", " ", "[", "2">>
LineIndented == <<" ", "m", " ", "1", " ", "[", "2", "]">>
LineBlank == <<>>
LineSpaces == <<" ">>
GoLines == {LineCurrent, LineSame, LineMinor, LineMajor, LineOther, LineMainModule,
            LineUnclosed, LineIndented, LineBlank, LineSpaces}
\* The lines a run of main() draws from (two probes run in one run).
RunGoLines == {LineCurrent, LineMinor, LineMajor, LineMainModule}

\* The text of an output: every line followed by a newline.
RECURSIVE JoinLines(_)
JoinLines(lines) ==
    IF lines = <<>> THEN <<>>
    ELSE Head(lines) \o <<"\n">> \o JoinLines(Tail(lines))

GoStdouts(lines, n) == {JoinLines(ls) : ls \in SeqsUpTo(lines, n)}

\* Entries of the "dependencies" list of cargo outdated.
DepSame == [name |-> <<"a">>, project |-> <<"1">>, latest |-> <<"1">>]
DepMinor == [name |-> <<"a">>, project |-> <<"1">>, latest |-> <<"1", ".", "1">>,
             kind |-> "Normal"]
DepMajor == [name |-> <<"b">>, project |-> <<"1">>, latest |-> <<"2">>]
DepOther == [name |-> <<"a">>, project |-> <<"1">>, latest |-> <<"v", "1">>]
DepNullLatest == [name |-> <<"a">>, project |-> <<"1">>, latest |-> None]
DepNoProject == [name |-> <<"a">>, latest |-> <<"2">>]
DepNoLatest == [name |-> <<"a">>, project |-> <<"1">>]
DepNoName == [project |-> <<"1">>, latest |-> <<"2">>]
DepNoNameSame == [project |-> <<"1">>, latest |-> <<"1">>]
DepEntries == {DepSame, DepMinor, DepMajor, DepOther, DepNullLatest, DepNoProject,
               DepNoLatest, DepNoName, DepNoNameSame}
\* The entries a run of main() draws from.
RunDepEntries == {DepSame, DepMinor, DepMajor, DepNoLatest}

CargoStdouts(entries, n) ==
    {[type |-> "invalid"], [type |-> "array"], [type |-> "object", members |-> EmptyDict]}
    \cup {[type |-> "object", members |-> [dependencies |-> ds]] : ds \in SeqsUpTo(entries, n)}

(***************************************************************************)
(* Report Builder: generate_report and its helpers.                        *)
(***************************************************************************)
\* The fixed list go_module_dirs of lines 196-199, by module_name (line 203).
GoModuleDirs == <<"bindings/go", "examples/goclient">>

\* The keys of report["go_modules"], in insertion order.
ModuleNames(go_modules) ==
    SelectSeq(GoModuleDirs, LAMBDA m : m \in DOMAIN go_modules)

\* subprocess.check_output(["date", ...]) of line 184: no timeout is given,
\* a child that cannot be launched or exits non-zero raises.
check_output(child) ==
    IF ~child.launch THEN [outcome |-> "raised", raised |-> "FileNotFoundError"]
    ELSE IF ~child.returns THEN [outcome |-> "blocked", raised |-> "none"]
    ELSE IF child.returncode # 0
    THEN [outcome |-> "raised", raised |-> "CalledProcessError"]
    ELSE [outcome |-> "ok", raised |-> "none"]

\* A variant of the sum of lines 208-211 that stops after the first module.
SumOutdatedFirstOnly(go_modules, names) ==
    IF names = <<>> THEN 0
    ELSE Get(go_modules[Head(names)], "outdated_count", 0)

\* sum(module.get("outdated_count", 0) for module in ...values()), 208-211.
RECURSIVE SumOutdated(_, _)
SumOutdated(go_modules, names) ==
    IF names = <<>> THEN 0
    ELSE Get(go_modules[Head(names)], "outdated_count", 0)
         + SumOutdated(go_modules, Tail(names))

\* any(update.get("change_type") == "major" for update in updates)
AnyMajor(updates) ==
    \E i \in 1..Len(updates) : Get(updates[i], "change_type", "") = "major"

\* A variant of has_major_updates that looks at the rust result only.
has_major_updates_rust_only(r) ==
    AnyMajor(Get(Get(r, "rust", EmptyDict), "updates", <<>>))

\* has_major_updates, lines 223-236.
has_major_updates(r) ==
    LET rust_updates == Get(Get(r, "rust", EmptyDict), "updates", <<>>)
        go_modules == Get(r, "go_modules", EmptyDict)
    IN  \/ AnyMajor(rust_updates)
        \/ \E m \in DOMAIN go_modules : AnyMajor(Get(go_modules[m], "updates", <<>>))

\* has_security_updates, lines 238-242.
has_security_updates(r) == FALSE

\* The summary dict of lines 206-219.
Summarise(r) ==
    LET total_rust_updates == Get(r.rust, "outdated_count", 0)
        total_go_updates == SumOutdated(r.go_modules, ModuleNames(r.go_modules))
    IN  [total_rust_updates |-> total_rust_updates,
         total_go_updates |-> total_go_updates,
         total_updates |-> total_rust_updates + total_go_updates,
         has_major_updates |-> has_major_updates(r),
         has_security_updates |-> has_security_updates(r)]

(***************************************************************************)
(* Report Renderer: print_report.  Each print call is one console entry.   *)
(***************************************************************************)
\* get_change_icon, lines 295-304.
get_change_icon(change_type) ==
    CASE change_type = "major" -> "red"
      [] change_type = "minor" -> "yellow"
      [] change_type = "patch" -> "green"
      [] change_type = "other" -> "blue"
      [] OTHER -> "white"

\* The if/elif/else of lines 266-273 and of lines 282-289.
SectionBody(section, data) ==
    IF Get(data, "error", <<>>) # <<>>
    THEN <<[line |-> "error", section |-> section, text |-> data.error]>>
    ELSE IF Get(data, "updates", <<>>) # <<>>
    THEN [i \in 1..Len(data.updates) |->
            [line |-> "update", section |-> section,
             icon |-> get_change_icon(data.updates[i].change_type),
             name |-> data.updates[i].name,
             current |-> data.updates[i].current,
             latest |-> data.updates[i].latest]]
    ELSE <<[line |-> "up_to_date", section |-> section]>>

\* The Rust section, lines 260-274.
RustSection(r) ==
    IF "rust" \in DOMAIN r /\ "updates" \in DOMAIN r.rust
    THEN <<[line |-> "header", section |-> "rust",
            updates |-> Get(r.rust, "outdated_count", 0)],
           [line |-> "rule", section |-> "rust"]>>
         \o SectionBody("rust", r.rust)
         \o <<[line |-> "blank", section |-> "rust"]>>
    ELSE <<>>

\* The Go modules sections, lines 276-290.
RECURSIVE GoSections(_, _)
GoSections(go_modules, names) ==
    IF names = <<>> THEN <<>>
    ELSE LET module_name == Head(names)
             module_data == go_modules[module_name]
         IN  <<[line |-> "header", section |-> module_name,
                updates |-> Get(module_data, "outdated_count", 0)],
               [line |-> "rule", section |-> module_name]>>
             \o SectionBody(module_name, module_data)
             \o <<[line |-> "blank", section |-> module_name]>>
             \o GoSections(go_modules, Tail(names))

\* print_report, lines 244-293.
print_report(r) ==
    <<[line |-> "banner"],
      [line |-> "generated", timestamp |-> r.timestamp],
      [line |-> "project", name |-> r.project_root],
      [line |-> "total", updates |-> r.summary.total_updates]>>
    \o (IF r.summary.has_major_updates THEN <<[line |-> "major_warning"]>> ELSE <<>>)
    \o <<[line |-> "blank", section |-> "summary"]>>
    \o RustSection(r)
    \o (IF "go_modules" \in DOMAIN r
        THEN GoSections(r.go_modules, ModuleNames(r.go_modules))
        ELSE <<>>)
    \o <<[line |-> "hint_update"], [line |-> "hint_check"]>>

(***************************************************************************)
(* main(): one action per step.  The command line has been parsed          *)
(* (line 315); --output and --save are read where main() uses them.        *)
(***************************************************************************)
MainIdle ==
    /\ pc = "idle"
    /\ rootExists = FALSE
    /\ report = EmptyDict
    /\ console = <<>>
    /\ invoked = <<>>
    /\ exception = "none"
    /\ exitCode = -1

VersionIdle ==
    /\ vpc = "idle"
    /\ version = <<>>
    /\ latest = <<>>
    /\ vret = <<>>

ProbeIdle ==
    /\ ppc = "idle"
    /\ probeIn = <<>>
    /\ probeRet = EmptyDict

\* An exception leaves main(): the interpreter prints the traceback and the
\* process ends with status 1.
Uncaught(e) ==
    /\ exception' = e
    /\ exitCode' = 1
    /\ pc' = "done"

\* Lines 317-321.
CheckRoot ==
    /\ pc = "check_root"
    /\ IF ~rootExists
       THEN /\ console' = Append(console, [line |-> "root_not_found"])
            /\ exitCode' = 1
            /\ pc' = "done"
       ELSE /\ pc' = "timestamp"
            /\ UNCHANGED <<console, exitCode>>
    /\ UNCHANGED <<rootExists, report, invoked, exception>>
    /\ UNCHANGED <<versionVars, probeVars>>

\* Lines 323-324 and 183-189: the report dict with its timestamp.
Timestamp ==
    /\ pc = "timestamp"
    /\ \E child \in Children({<<>>}) :
         LET r == check_output(child)
         IN  /\ invoked' = Append(invoked, "date")
             /\ CASE r.outcome = "ok" ->
                       /\ report' = [timestamp |-> "now",
                                     project_root |-> "root",
                                     rust |-> EmptyDict,
                                     go_modules |-> EmptyDict,
                                     summary |-> EmptyDict]
                       /\ pc' = "rust"
                       /\ UNCHANGED <<exception, exitCode>>
                  [] r.outcome = "raised" ->
                       /\ Uncaught(r.raised)
                       /\ UNCHANGED report
                  [] r.outcome = "blocked" ->
                       /\ pc' = "blocked"
                       /\ UNCHANGED <<report, exception, exitCode>>
    /\ UNCHANGED <<rootExists, console>>
    /\ UNCHANGED <<versionVars, probeVars>>

\* Lines 191-193.
Rust ==
    /\ pc = "rust"
    /\ \E cargoToml \in BOOLEAN :
         IF ~cargoToml
         THEN /\ pc' = "go1"
              /\ UNCHANGED <<report, console, invoked, exception, exitCode>>
         ELSE \E check \in Children({<<>>}),
                 outdated \in Children(CargoStdouts(RunDepEntries, MaxRunDeps)) :
                LET o == analyze_cargo_deps(check, outdated)
                IN  /\ console' = console \o o.printed
                    /\ invoked' = invoked \o o.ran
                    /\ IF o.raised # "none"
                       THEN /\ Uncaught(o.raised)
                            /\ UNCHANGED report
                       ELSE /\ report' = [report EXCEPT !.rust = o.ret]
                            /\ pc' = "go1"
                            /\ UNCHANGED <<exception, exitCode>>
    /\ UNCHANGED rootExists
    /\ UNCHANGED <<versionVars, probeVars>>

\* One iteration of the loop of lines 201-204.
Go(i) ==
    /\ pc = <<"go1", "go2">>[i]
    /\ pc' = <<"go2", "summary">>[i]
    /\ \E exists \in BOOLEAN :
         IF ~exists
         THEN UNCHANGED <<report, console, invoked>>
         ELSE \E gomod \in BOOLEAN,
                 child \in Children(GoStdouts(RunGoLines, MaxRunLines)) :
                LET module_name == GoModuleDirs[i]
                    o == analyze_go_deps(module_name, gomod, child)
                IN  /\ console' = console \o o.printed
                    /\ invoked' = invoked \o o.ran
                    /\ report' = [report EXCEPT
                                    !.go_modules = (module_name :> o.ret) @@ @]
    /\ UNCHANGED <<rootExists, exception, exitCode>>
    /\ UNCHANGED <<versionVars, probeVars>>

\* Lines 206-221.
Summary ==
    /\ pc = "summary"
    /\ report' = [report EXCEPT !.summary = Summarise(report)]
    /\ pc' = "render"
    /\ UNCHANGED <<rootExists, console, invoked, exception, exitCode>>
    /\ UNCHANGED <<versionVars, probeVars>>

\* Lines 326-329.
Render ==
    /\ pc = "render"
    /\ \E output \in {"json", "human"} :
         IF output = "json"
         THEN console' = Append(console, [line |-> "json", doc |-> report])
         ELSE console' = console \o print_report(report)
    /\ pc' = "save"
    /\ UNCHANGED <<rootExists, report, invoked, exception, exitCode>>
    /\ UNCHANGED <<versionVars, probeVars>>

\* Lines 331-334.  open() raises OSError when the file cannot be written.
Save ==
    /\ pc = "save"
    /\ \E save \in {"none", "writable", "unwritable"} :
         CASE save = "none" ->
                /\ pc' = "exit"
                /\ UNCHANGED <<console, exception, exitCode>>
           [] save = "writable" ->
                /\ console' = Append(console, [line |-> "saved"])
                /\ pc' = "exit"
                /\ UNCHANGED <<exception, exitCode>>
           [] save = "unwritable" ->
                /\ Uncaught("OSError")
                /\ UNCHANGED console
    /\ UNCHANGED <<rootExists, report, invoked>>
    /\ UNCHANGED <<versionVars, probeVars>>

\* Lines 336-338.
Exit ==
    /\ pc = "exit"
    /\ exitCode' = IF report.summary.total_updates > 0 THEN 1 ELSE 0
    /\ pc' = "done"
    /\ UNCHANGED <<rootExists, report, console, invoked, exception>>
    /\ UNCHANGED <<versionVars, probeVars>>

Init ==
    /\ pc = "check_root"
    /\ rootExists \in BOOLEAN
    /\ report = EmptyDict
    /\ console = <<>>
    /\ invoked = <<>>
    /\ exception = "none"
    /\ exitCode = -1
    /\ VersionIdle
    /\ ProbeIdle

Next ==
    \/ CheckRoot
    \/ Timestamp
    \/ Rust
    \/ Go(1)
    \/ Go(2)
    \/ Summary
    \/ Render
    \/ Save
    \/ Exit

Spec == Init /\ [][Next]_vars

(***************************************************************************)
(* Calls of the Version Classifier on arbitrary arguments.                 *)
(***************************************************************************)
VersionChars == {"v", ".", "0", "1"}
VersionArgs == SeqsUpTo(VersionChars, MaxLen) \cup {None}

VersionInit ==
    /\ MainIdle
    /\ ProbeIdle
    /\ vpc = "args"
    /\ version \in VersionArgs
    /\ latest \in VersionArgs
    /\ vret = <<>>

\* self.parse_version(version)
CallParseVersion ==
    /\ vpc = "args"
    /\ IF parse_version_raises(version)
       THEN vpc' = "raised" /\ vret' = <<>>
       ELSE vpc' = "parsed" /\ vret' = parse_version(version)
    /\ UNCHANGED <<version, latest>>
    /\ UNCHANGED <<mainVars, probeVars>>

\* self.determine_semver_change(version, latest)
CallDetermineSemverChange ==
    /\ vpc = "args"
    /\ vpc' = "classified"
    /\ vret' = determine_semver_change(version, latest)
    /\ UNCHANGED <<version, latest>>
    /\ UNCHANGED <<mainVars, probeVars>>

VersionNext ==
    \/ CallParseVersion
    \/ CallDetermineSemverChange

VersionSpec == VersionInit /\ [][VersionNext]_vars

(***************************************************************************)
(* Calls of the two probes on arbitrary tool behaviour.                    *)
(***************************************************************************)
ProbeInit ==
    /\ MainIdle
    /\ VersionIdle
    /\ probeRet = EmptyDict
    /\ \/ /\ ppc = "go_args"
          /\ probeIn \in [gomod : BOOLEAN,
                          child : Children(GoStdouts(GoLines, MaxLines))]
       \/ /\ ppc = "cargo_args"
          /\ probeIn \in [check : Children({<<>>}),
                          outdated : Children(CargoStdouts(DepEntries, MaxDeps))]

\* self.analyze_go_deps(module_dir)
CallAnalyzeGoDeps ==
    /\ ppc = "go_args"
    /\ ppc' = "go"
    /\ probeRet' = analyze_go_deps(GoModuleDirs[1], probeIn.gomod, probeIn.child).ret
    /\ UNCHANGED probeIn
    /\ UNCHANGED <<mainVars, versionVars>>

\* self.analyze_cargo_deps()
CallAnalyzeCargoDeps ==
    /\ ppc = "cargo_args"
    /\ LET o == analyze_cargo_deps(probeIn.check, probeIn.outdated)
       IN  /\ ppc' = IF o.raised # "none" THEN "cargo_raised" ELSE "cargo"
           /\ probeRet' = o.ret
    /\ UNCHANGED probeIn
    /\ UNCHANGED <<mainVars, versionVars>>

ProbeNext ==
    \/ CallAnalyzeGoDeps
    \/ CallAnalyzeCargoDeps

ProbeSpec == ProbeInit /\ [][ProbeNext]_vars

(***************************************************************************)
(* Properties.                                                             *)
(***************************************************************************)
\* generate_report has returned: the summary is in the report.
Summarised == pc \in {"render", "save", "exit", "done"} /\ "summary" \in DOMAIN report
                 /\ DOMAIN report.summary # {}

\* The report was rendered, as JSON or by print_report.
Rendered == \E i \in 1..Len(console) : console[i].line \in {"json", "banner"}

\* print_report has printed the report.
RenderedHuman == \E i \in 1..Len(console) : console[i].line = "banner"

\* outdated_count of one ecosystem result, 0 when it has none.
Outdated(result) ==
    IF "outdated_count" \in DOMAIN result THEN result.outdated_count ELSE 0

\* The same for a module of go_modules, 0 when the module was not probed.
OutdatedOf(m) ==
    IF m \in DOMAIN report.go_modules THEN Outdated(report.go_modules[m]) ELSE 0

\* Some update of the result has change_type "major".
SomeMajor(result) ==
    /\ "updates" \in DOMAIN result
    /\ \E i \in 1..Len(result.updates) : result.updates[i].change_type = "major"

\* The error of `section` is printed in its section by print_report.
ErrorPrinted(section, data) ==
    \E i \in 1..Len(console) :
        /\ console[i].line = "error"
        /\ console[i].section = section
        /\ console[i].text = data.error

\* C1: a finished run has exit code 1 if the project root is missing (and
\* then no external command was run), 1 if the run completed with
\* summary.total_updates > 0, and 0 in every other case.
C1_ExitCodes ==
    pc = "done" =>
        /\ ~rootExists => exitCode = 1 /\ invoked = <<>>
        /\ rootExists /\ Summarised /\ report.summary.total_updates > 0 => exitCode = 1
        /\ rootExists /\ ~(Summarised /\ report.summary.total_updates > 0) => exitCode = 0

\* C2: no exception escapes main(), whatever the external tools do, and a run
\* whose project root exists reaches the summary and the rendering.
C2_NoExceptionEscapes ==
    /\ exception = "none"
    /\ pc = "done" /\ rootExists => Summarised /\ Rendered

\* C3: in every report generate_report produces, summary.total_updates is
\* the sum of outdated_count over the rust result and every go_modules
\* result, a result without outdated_count counting 0.
C3_TotalUpdatesIsSum ==
    Summarised =>
        report.summary.total_updates
            = Outdated(report.rust) + OutdatedOf("bindings/go")
              + OutdatedOf("examples/goclient")

\* C3 witness: a report whose rust result is an error and whose two go
\* modules both contribute updates.
C3_Witness ==
    /\ Summarised
    /\ "error" \in DOMAIN report.rust
    /\ OutdatedOf("bindings/go") = 2
    /\ OutdatedOf("examples/goclient") = 1
    /\ report.summary.total_updates = 3

\* C4: in every report generate_report produces, summary.has_major_updates
\* is true iff some update of the rust result or of a go_modules result has
\* change_type "major".
C4_HasMajorIff ==
    Summarised =>
        (report.summary.has_major_updates
            <=> \/ SomeMajor(report.rust)
                \/ \E m \in DOMAIN report.go_modules : SomeMajor(report.go_modules[m]))

\* C4 witness: a report whose only major update is in the second go module,
\* the rust result having a non-major update.
C4_Witness ==
    /\ Summarised
    /\ report.summary.has_major_updates
    /\ Outdated(report.rust) > 0
    /\ ~SomeMajor(report.rust)
    /\ "bindings/go" \in DOMAIN report.go_modules
    /\ ~SomeMajor(report.go_modules["bindings/go"])
    /\ "examples/goclient" \in DOMAIN report.go_modules
    /\ SomeMajor(report.go_modules["examples/goclient"])

\* C5: every result a probe returns without an error has outdated_count
\* equal to the length of its updates.
C5_OutdatedCountIsLen ==
    ppc \in {"go", "cargo"} /\ "error" \notin DOMAIN probeRet =>
        probeRet.outdated_count = Len(probeRet.updates)

\* C5 witness: the native probe returns a result with three dependencies, two
\* of them outdated.
C5_Witness ==
    /\ ppc = "cargo"
    /\ "error" \notin DOMAIN probeRet
    /\ probeRet.total_deps = 3
    /\ Len(probeRet.updates) = 2

\* The algorithm as stated: strip a single leading "v" if present, split on
\* ".", take at most three segments, the leading digits of each or 0, pad.
parse_version_strip_one(v) ==
    LET stripped == IF v # <<>> /\ Head(v) = "v" THEN Tail(v) ELSE v
        all == split(stripped, ".")
        parts == SubSeq(all, 1, IF Len(all) < 3 THEN Len(all) ELSE 3)
        result == [i \in 1..Len(parts) |-> ParsePart(parts[i])]
    IN  [i \in 1..3 |-> IF i <= Len(result) THEN result[i] ELSE 0]

\* C6: for every str, parse_version does not raise and returns the tuple of
\* the stated algorithm, which strips a single leading "v".
C6_ParseVersionAsStated ==
    version # None =>
        /\ vpc # "raised"
        /\ vpc = "parsed" => vret = parse_version_strip_one(version)

\* C7: for every pair of version strings, determine_semver_change returns
\* "major" if the parsed majors differ, else "minor" if the minors differ,
\* else "patch" if the patches differ, else "other"; "unknown" is returned
\* only when parsing raises.
C7_Classification ==
    vpc = "classified" =>
        IF version # None /\ latest # None
        THEN LET p == parse_version(version)
                 q == parse_version(latest)
             IN  /\ vret = "major" <=> p[1] # q[1]
                 /\ vret = "minor" <=> p[1] = q[1] /\ p[2] # q[2]
                 /\ vret = "patch" <=> p[1] = q[1] /\ p[2] = q[2] /\ p[3] # q[3]
                 /\ vret = "other" <=> p = q
                 /\ vret \in {"major", "minor", "patch", "other"}
        ELSE vret = "unknown"

\* C7 witness: a downgrade of the minor component is classified "minor".
C7_Witness ==
    /\ vpc = "classified"
    /\ version # None /\ latest # None
    /\ parse_version(version)[2] > parse_version(latest)[2]
    /\ vret = "minor"

\* The lines of the output that analyze_go_deps iterates over and does not
\* skip as empty.
ProbedLines == split(strip(run_command(probeIn.child).stdout), "\n")
Outdating(line) ==
    LET m == GoLineMatch(line)
    IN  m.matched /\ m.latest_version # <<>> /\ m.latest_version # m.current_version

\* C8: in a successful run of analyze_go_deps, total_deps is the number of
\* output lines that match the pattern, and outdated_count the number of
\* matching lines whose bracketed latest version differs from the current.
C8_TotalDepsCountsMatches ==
    ppc = "go" /\ "error" \notin DOMAIN probeRet =>
        /\ probeRet.total_deps
             = Cardinality({i \in 1..Len(ProbedLines) : GoLineMatch(ProbedLines[i]).matched})
        /\ probeRet.outdated_count
             = Cardinality({i \in 1..Len(ProbedLines) : Outdating(ProbedLines[i])})

\* C9: a run whose project root exists always terminates, whichever external
\* tool never returns: a run that is not done can take a step.
C9_Terminates == pc = "done" \/ ENABLED Next

\* C10: once print_report has printed, every result of the report that has
\* an error has it printed in its section, the rust result included.
C10_ErrorsPrinted ==
    RenderedHuman =>
        /\ "error" \in DOMAIN report.rust => ErrorPrinted("rust", report.rust)
        /\ \A m \in DOMAIN report.go_modules :
             "error" \in DOMAIN report.go_modules[m]
                => ErrorPrinted(m, report.go_modules[m])

=============================================================================
